---- MODULE Spec2Model ----
(***************************************************************************)
(* Galaxy Explorer: the selection state of App, the hover state and the    *)
(* per-frame animation of GalaxyScene / GalaxyPoints, the seeded random    *)
(* generator, the morphology classification of the particle generator and  *)
(* the colour-scheme parser.                                               *)
(*                                                                         *)
(* Numbers: animated scalars are fixed point in millionths, positions in   *)
(* thousandths of a scene unit, angles in millionths of a radian, time in  *)
(* milliseconds.  Text that the code inspects character by character       *)
(* (type labels, colour schemes) is a sequence of one-character strings.   *)
(***************************************************************************)
EXTENDS Integers, Sequences, FiniteSets, TLC

VARIABLES
    selectedGalaxyId,   \* App: useState(orderedGalaxies[0].id)
    hoveredGalaxy,      \* GalaxyScene: useState<string | null>(null)
    anim,               \* per instance: the values GalaxyPoints.useFrame mutates
    cameraPosition,     \* camera.position
    controlsTarget,     \* controls.target
    targetRef,          \* targetRef.current
    desiredCameraRef,   \* desiredCameraRef.current
    ticks,              \* frames rendered so far
    gens,               \* createSeededRandom closures: instance -> state
    job,                \* the particleData computation of one GalaxyPoints
    scheme,             \* the argument of the last getColorPair call
    colorPair,          \* the result of the last getColorPair call
    memo,               \* per instance: the useMemo cells of GalaxyPoints
    pointerOn,          \* the instances the pointer is over
    frame,              \* the frame in progress: callbacks still to run
    probe               \* camera offsets computed for a pair of sizes

interactionVars == <<selectedGalaxyId, hoveredGalaxy, anim, cameraPosition,
                     controlsTarget, targetRef, desiredCameraRef, ticks>>
randomVars == <<gens>>
particleVars == <<job>>
colorVars == <<scheme, colorPair>>
memoVars == <<memo>>
pointerVars == <<pointerOn>>
frameVars == <<frame>>
probeVars == <<probe>>
detailVars == <<memo, pointerOn, frame, probe>>
vars == <<selectedGalaxyId, hoveredGalaxy, anim, cameraPosition,
          controlsTarget, targetRef, desiredCameraRef, ticks, gens, job,
          scheme, colorPair, memo, pointerOn, frame, probe>>

(***************************************************************************)
(* Bounds of the model.                                                    *)
(***************************************************************************)
MaxTicks == 1
MaxGens == 2
MaxDraws == 3
MaxSchemeLen == 4
MaxHeldTicks == 200
Epsilon == 20

(***************************************************************************)
(* Text.                                                                   *)
(***************************************************************************)
SP == <<" ">>
W_Ring == <<"R", "i", "n", "g">>
W_Irregular == <<"I", "r", "r", "e", "g", "u", "l", "a", "r">>
W_Peculiar == <<"P", "e", "c", "u", "l", "i", "a", "r">>
W_Elliptical == <<"E", "l", "l", "i", "p", "t", "i", "c", "a", "l">>
W_GrandDesign == <<"G", "r", "a", "n", "d", "-", "D", "e", "s", "i", "g", "n">>
W_Spiral == <<"S", "p", "i", "r", "a", "l">>
W_Unbarred == <<"U", "n", "b", "a", "r", "r", "e", "d">>
W_Galaxy == <<"G", "a", "l", "a", "x", "y">>

\* String.prototype.includes: substring containment
Includes(s, sub) ==
    \E i \in 0..(Len(s) - Len(sub)) : SubSeq(s, i + 1, i + Len(sub)) = sub

(***************************************************************************)
(* The catalog (data/galaxies.ts), in catalog order.                       *)
(***************************************************************************)
galaxies ==
    << [id |-> "andromeda",
        type |-> W_Spiral \o SP \o W_Galaxy,
        sizeLightYears |-> 220000,
        colorScheme |-> <<"#","6","d","d","5","e","d",",","#","2","1","9","3","b","0">>],
       [id |-> "sombrero",
        type |-> W_Unbarred \o SP \o W_Spiral \o SP \o W_Galaxy,
        sizeLightYears |-> 50000,
        colorScheme |-> <<"#","f","c","e","a","b","b",",","#","f","8","b","5","0","0">>],
       [id |-> "triangulum",
        type |-> W_Spiral \o SP \o W_Galaxy,
        sizeLightYears |-> 60000,
        colorScheme |-> <<"#","a","1","8","c","d","1",",","#","f","b","c","2","e","b">>],
       [id |-> "centaurus-a",
        type |-> W_Peculiar \o SP \o W_Galaxy,
        sizeLightYears |-> 60000,
        colorScheme |-> <<"#","f","f","9","a","9","e",",","#","f","a","d","0","c","4">>],
       [id |-> "whirlpool",
        type |-> W_GrandDesign \o SP \o W_Spiral \o SP \o W_Galaxy,
        sizeLightYears |-> 76000,
        colorScheme |-> <<"#","0","0","c","6","f","f",",","#","0","0","7","2","f","f">>],
       [id |-> "cartwheel",
        type |-> W_Ring \o SP \o W_Galaxy,
        sizeLightYears |-> 150000,
        colorScheme |-> <<"#","f","c","5","c","7","d",",","#","6","a","8","2","f","b">>],
       [id |-> "large-magellanic-cloud",
        type |-> W_Irregular \o SP \o W_Galaxy,
        sizeLightYears |-> 14000,
        colorScheme |-> <<"#","4","3","c","e","a","2",",","#","1","8","5","a","9","d">>] >>

\* App: orderedGalaxies = useMemo(() => galaxies, [])
orderedGalaxies == galaxies

N == Len(orderedGalaxies)
Indices == 0..(N - 1)
CatalogIds == {orderedGalaxies[k].id : k \in 1..N}

\* ids that select(id) can be handed and that no catalog entry has
AbsentIds == {"unknown"}
NoGalaxy == "<null>"

(***************************************************************************)
(* Arithmetic helpers.                                                     *)
(***************************************************************************)
\* integer division truncating toward zero
Trunc(a, b) == IF a >= 0 THEN a \div b ELSE -((-a) \div b)

\* the remainder operator % of JavaScript: the sign of the dividend
JsRem(a, m) == IF a >= 0 THEN a % m ELSE -((-a) % m)

\* an interpolation that applies the factor as 1 + t
Lerp_Overshoot(x, y, tPct) == x + Trunc((y - x) * (100 + tPct), 100)

\* THREE.MathUtils.lerp(x, y, t) and Vector3.lerp per component,
\* t given in hundredths
Lerp(x, y, tPct) == x + Trunc((y - x) * tPct, 100)

LerpVec(p, q, tPct) ==
    [x |-> Lerp(p.x, q.x, tPct), y |-> Lerp(p.y, q.y, tPct), z |-> Lerp(p.z, q.z, tPct)]

\* THREE.MathUtils.degToRad, degrees -> millionths of a radian
DegToRad(d) == Trunc(d * 17453293, 1000)

\* Math.cbrt of the catalog's sizeLightYears and of the cubes 1, 10^3,
\* 20^3, 30^3, 50^3, 100^3, in thousandths
CbrtMilli(size) ==
    CASE size = 220000 -> 60368
      [] size = 150000 -> 53133
      [] size = 76000 -> 42358
      [] size = 60000 -> 39149
      [] size = 50000 -> 36840
      [] size = 14000 -> 24101
      [] size = 1 -> 1000
      [] size = 1000 -> 10000
      [] size = 8000 -> 20000
      [] size = 27000 -> 30000
      [] size = 125000 -> 50000
      [] size = 1000000 -> 100000

(***************************************************************************)
(* App: selection.                                                         *)
(***************************************************************************)
\* Array.prototype.findIndex by id: 0-based index, -1 when absent
FindIndex(id) ==
    IF \E k \in 1..N : orderedGalaxies[k].id = id
    THEN (CHOOSE k \in 1..N :
              /\ orderedGalaxies[k].id = id
              /\ \A j \in 1..(k - 1) : orderedGalaxies[j].id # id) - 1
    ELSE -1

\* a resolution that indexes by the findIndex result as Array.prototype.at does
ResolveSelected_AtIndex(id) == orderedGalaxies[JsRem(FindIndex(id) + N, N) + 1]

\* orderedGalaxies.find(g => g.id === selectedGalaxyId) ?? orderedGalaxies[0]
ResolveSelected(id) ==
    IF FindIndex(id) >= 0 THEN orderedGalaxies[FindIndex(id) + 1]
    ELSE orderedGalaxies[1]

\* the id App hands to GalaxyScene and GalaxySidebar as selectedGalaxyId
ResolvedId(id) == ResolveSelected(id).id

\* selectByStep: the id that setSelectedGalaxyId receives
StepId(id, direction) ==
    LET currentIndex == FindIndex(id)
        nextIndex == JsRem(currentIndex + direction + N, N)
    IN  orderedGalaxies[nextIndex + 1].id

(***************************************************************************)
(* GalaxyScene: layout, props of the instances, camera.                    *)
(***************************************************************************)
\* galaxiesWithPositions[index].position, thousandths:
\* (cos(a) * 55, sin(2a) * 4 / 2, sin(a) * 55) with a = index / N * 2 * PI
Position(index) ==
    CASE index = 0 -> [x |-> 55000, y |-> 0, z |-> 0]
      [] index = 1 -> [x |-> 34292, y |-> 1950, z |-> 43001]
      [] index = 2 -> [x |-> -12239, y |-> -868, z |-> 53621]
      [] index = 3 -> [x |-> -49553, y |-> -1564, z |-> 23864]
      [] index = 4 -> [x |-> -49553, y |-> 1564, z |-> -23864]
      [] index = 5 -> [x |-> -12239, y |-> 868, z |-> -53621]
      [] index = 6 -> [x |-> 34292, y |-> -1950, z |-> -43001]

IsSombrero(index) == orderedGalaxies[index + 1].id = "sombrero"

\* galaxiesWithPositions[index].baseTilt
BaseTilt(index) ==
    IF IsSombrero(index)
    THEN [x |-> DegToRad(84), y |-> DegToRad(-12), z |-> DegToRad(4)]
    ELSE IF Includes(orderedGalaxies[index + 1].type, W_Irregular)
    THEN [x |-> DegToRad(18), y |-> DegToRad(index * 12), z |-> DegToRad(-8)]
    ELSE [x |-> DegToRad(32), y |-> DegToRad(index * 8), z |-> DegToRad(6)]

\* galaxiesWithPositions[index].rotationSpeed, thousandths of rad/s
RotationSpeed(index) ==
    IF IsSombrero(index) THEN 180
    ELSE IF Includes(orderedGalaxies[index + 1].type, W_Elliptical) THEN 120
    ELSE 320

\* GalaxyScene: selectedGalaxy, found by the id prop that App resolved
SceneSelectedIndex(sel) ==
    IF FindIndex(ResolvedId(sel)) >= 0 THEN FindIndex(ResolvedId(sel)) ELSE 0

\* isSelected compared with the id App stores instead of the id it resolved
IsSelected_ByStoredId(index, sel) == orderedGalaxies[index + 1].id = sel

\* the props isSelected / isHovered of the instance at index
IsSelected(index, sel) == orderedGalaxies[index + 1].id = ResolvedId(sel)
IsHovered(index, hov) == hov = orderedGalaxies[index + 1].id

\* an offset that brings the camera closer as the galaxy grows
CameraOffset_Closer(cbrtMilli) ==
    LET sizeScalar == (cbrtMilli * 5) \div 100
    IN  [x |-> 4000 - (sizeScalar * 6) \div 10,
         y |-> 12000 - (sizeScalar * 5) \div 10,
         z |-> 25000 - (sizeScalar * 18) \div 10]

\* useFrame of GalaxyScene: the offset from the selected position to the
\* desired camera position, from Math.cbrt(sizeLightYears) in thousandths
CameraOffset(cbrtMilli) ==
    LET sizeScalar == (cbrtMilli * 5) \div 100
    IN  [x |-> (sizeScalar * 6) \div 10 + 4000,
         y |-> (sizeScalar * 5) \div 10 + 12000,
         z |-> (sizeScalar * 18) \div 10 + 25000]

\* the desired camera position for a galaxy of this size at position p
DesiredAt(p, size) ==
    LET offset == CameraOffset(CbrtMilli(size))
    IN  [x |-> p.x + offset.x, y |-> p.y + offset.y, z |-> p.z + offset.z]

\* useFrame of GalaxyScene: the desired camera position
DesiredCamera(sel) ==
    LET g == SceneSelectedIndex(sel)
    IN  DesiredAt(Position(g), orderedGalaxies[g + 1].sizeLightYears)

(***************************************************************************)
(* GalaxyPoints.useFrame: one frame of one instance.  The refs are taken   *)
(* as mounted (the early return and the null guards do not fire).  The     *)
(* twinkle of the point material (size and opacity as a sine of the clock) *)
(* is a function of elapsed time alone and is not part of the state.       *)
(***************************************************************************)
\* the ternary with the hovered test first: isHovered ? h : isSelected ? s : i
Target_HoverFirst(isSel, isHov, s, h, i) == IF isHov THEN h ELSE IF isSel THEN s ELSE i

\* isSelected ? s : isHovered ? h : i
Target(isSel, isHov, s, h, i) == IF isSel THEN s ELSE IF isHov THEN h ELSE i

\* the animated scalars, and the lerp factor of each in hundredths
Animated == {"scale", "ringOpacity", "glow", "halo", "outerHalo",
             "bulgeEmissive", "bulgeSize", "bulgeOpacity"}

Factor ==
    [ scale |-> 8, ringOpacity |-> 8, glow |-> 8, halo |-> 8, outerHalo |-> 5,
      bulgeEmissive |-> 12, bulgeSize |-> 10, bulgeOpacity |-> 10 ]

\* a table whose hovered ring opacity lies below the idle one
Targets_DimHoveredRing(isSel, isHov) ==
    [ scale |-> Target(isSel, isHov, 1160000, 1070000, 1000000),
      ringOpacity |-> Target(isSel, isHov, 320000, 120000, 160000),
      glow |-> Target(isSel, isHov, 1500000, 1080000, 750000),
      halo |-> Target(isSel, isHov, 1350000, 950000, 720000),
      outerHalo |-> Target(isSel, isHov, 500000, 340000, 240000),
      bulgeEmissive |-> Target(isSel, isHov, 1220000, 980000, 680000),
      bulgeSize |-> Target(isSel, isHov, 1300000, 1050000, 850000),
      bulgeOpacity |-> IF isSel THEN 1000000 ELSE 820000 ]

\* the targets one frame steers an instance to, from its two props
Targets(isSel, isHov) ==
    [ scale |-> Target(isSel, isHov, 1160000, 1070000, 1000000),
      ringOpacity |-> Target(isSel, isHov, 320000, 220000, 160000),
      glow |-> Target(isSel, isHov, 1500000, 1080000, 750000),
      halo |-> Target(isSel, isHov, 1350000, 950000, 720000),
      outerHalo |-> Target(isSel, isHov, 500000, 340000, 240000),
      bulgeEmissive |-> Target(isSel, isHov, 1220000, 980000, 680000),
      bulgeSize |-> Target(isSel, isHov, 1300000, 1050000, 850000),
      bulgeOpacity |-> IF isSel THEN 1000000 ELSE 820000 ]

FrameInstance(a, index, isSel, isHov, delta) ==
    LET t == Targets(isSel, isHov)
    IN  [ rotY |-> a.rotY + RotationSpeed(index) * delta,
          rotX |-> Lerp(a.rotX, BaseTilt(index).x, 8),
          rotZ |-> Lerp(a.rotZ, BaseTilt(index).z, 8),
          scale |-> Lerp(a.scale, t.scale, Factor.scale),
          ringRotZ |-> a.ringRotZ + delta * 160,
          ringOpacity |-> Lerp(a.ringOpacity, t.ringOpacity, Factor.ringOpacity),
          glow |-> Lerp(a.glow, t.glow, Factor.glow),
          halo |-> Lerp(a.halo, t.halo, Factor.halo),
          outerHalo |-> Lerp(a.outerHalo, t.outerHalo, Factor.outerHalo),
          bulgeEmissive |-> Lerp(a.bulgeEmissive, t.bulgeEmissive, Factor.bulgeEmissive),
          bulgeSize |-> Lerp(a.bulgeSize, t.bulgeSize, Factor.bulgeSize),
          bulgeOpacity |-> Lerp(a.bulgeOpacity, t.bulgeOpacity, Factor.bulgeOpacity) ]

\* the values the JSX of GalaxyPoints mounts each instance with
InitialAnim(index) ==
    [ rotY |-> BaseTilt(index).y,
      rotX |-> BaseTilt(index).x,
      rotZ |-> BaseTilt(index).z,
      scale |-> 1000000,
      ringRotZ |-> 0,
      ringOpacity |-> 180000,
      glow |-> 850000,
      halo |-> 800000,
      outerHalo |-> 240000,
      bulgeEmissive |-> 700000,
      bulgeSize |-> 950000,
      bulgeOpacity |-> 860000 ]

\* the frame lengths the render loop reports, milliseconds
Deltas == {16}

(***************************************************************************)
(* Initial states.                                                         *)
(***************************************************************************)
InitInteraction ==
    /\ selectedGalaxyId = orderedGalaxies[1].id
    /\ hoveredGalaxy = NoGalaxy
    /\ anim = [k \in Indices |-> InitialAnim(k)]
    /\ cameraPosition = [x |-> 0, y |-> 30000, z |-> 80000]
    /\ controlsTarget = [x |-> 0, y |-> 0, z |-> 0]
    /\ targetRef = Position(0)
    /\ desiredCameraRef = [x |-> 0, y |-> 0, z |-> 0]
    /\ ticks = 0

InitRandom == gens = <<>>
InitParticles == job = [phase |-> "idle"]
InitColors == scheme = <<>> /\ colorPair = <<>>

\* the variables that only the specifications of one detail use, at rest
InitDetail ==
    /\ memo = <<>>
    /\ pointerOn = {}
    /\ frame = [phase |-> "idle"]
    /\ probe = [phase |-> "idle"]

Init == InitInteraction /\ InitRandom /\ InitParticles /\ InitColors /\ InitDetail

\* the scene not mounted: the generator, the particle computation and the
\* colour parser are exercised on their own
InteractionUnmounted ==
    /\ selectedGalaxyId = NoGalaxy
    /\ hoveredGalaxy = NoGalaxy
    /\ anim = <<>>
    /\ cameraPosition = <<>>
    /\ controlsTarget = <<>>
    /\ targetRef = <<>>
    /\ desiredCameraRef = <<>>
    /\ ticks = 0

InitFunctions ==
    InteractionUnmounted /\ InitRandom /\ InitParticles /\ InitColors /\ InitDetail

(***************************************************************************)
(* Interaction events.                                                     *)
(***************************************************************************)
\* setSelectedGalaxyId(id) with the effect never run again after mount
SetSelected_NoEffect(id) ==
    /\ selectedGalaxyId' = id
    /\ targetRef' = targetRef

\* setSelectedGalaxyId(id), the re-render and the effect that copies the
\* selected position into targetRef
SetSelected(id) ==
    /\ selectedGalaxyId' = id
    /\ targetRef' = Position(SceneSelectedIndex(id))

\* select(id): onSelectGalaxy = setSelectedGalaxyId
Select(id) ==
    /\ SetSelected(id)
    /\ UNCHANGED <<hoveredGalaxy, anim, cameraPosition, controlsTarget,
                   desiredCameraRef, ticks>>
    /\ UNCHANGED <<randomVars, particleVars, colorVars, detailVars>>

\* next(): onNext = () => selectByStep(1)
SelectNext ==
    /\ SetSelected(StepId(selectedGalaxyId, 1))
    /\ UNCHANGED <<hoveredGalaxy, anim, cameraPosition, controlsTarget,
                   desiredCameraRef, ticks>>
    /\ UNCHANGED <<randomVars, particleVars, colorVars, detailVars>>

\* previous(): onPrev = () => selectByStep(-1)
SelectPrevious ==
    /\ SetSelected(StepId(selectedGalaxyId, -1))
    /\ UNCHANGED <<hoveredGalaxy, anim, cameraPosition, controlsTarget,
                   desiredCameraRef, ticks>>
    /\ UNCHANGED <<randomVars, particleVars, colorVars, detailVars>>

\* onHover(value) of the instance with this id:
\* setHoveredGalaxy(value ? galaxy.id : null)
OnHover(id, value) ==
    hoveredGalaxy' = IF value THEN id ELSE NoGalaxy

\* an onPointerOver that also selects the instance it enters
PointerOver_Selects(id) ==
    /\ OnHover(id, TRUE)
    /\ SetSelected(id)
    /\ UNCHANGED <<anim, cameraPosition, controlsTarget, desiredCameraRef, ticks>>
    /\ UNCHANGED <<randomVars, particleVars, colorVars, detailVars>>

\* onPointerOver of the instance with this id: onHover(true)
PointerOver(id) ==
    /\ OnHover(id, TRUE)
    /\ UNCHANGED <<selectedGalaxyId, anim, cameraPosition, controlsTarget,
                   targetRef, desiredCameraRef, ticks>>
    /\ UNCHANGED <<randomVars, particleVars, colorVars, detailVars>>

\* onPointerOut of the instance with this id: onHover(false)
PointerOut(id) ==
    /\ OnHover(id, FALSE)
    /\ UNCHANGED <<selectedGalaxyId, anim, cameraPosition, controlsTarget,
                   targetRef, desiredCameraRef, ticks>>
    /\ UNCHANGED <<randomVars, particleVars, colorVars, detailVars>>

\* one rendered frame: the useFrame callback of GalaxyScene, then the
\* useFrame callback of every GalaxyPoints.  controls.update() belongs to
\* OrbitControls and is not modelled.
Frame(delta) ==
    /\ ticks' = ticks + 1
    /\ desiredCameraRef' = DesiredCamera(selectedGalaxyId)
    /\ cameraPosition' = LerpVec(cameraPosition, desiredCameraRef', 8)
    /\ controlsTarget' = LerpVec(controlsTarget, targetRef, 12)
    /\ anim' = [k \in Indices |->
                  FrameInstance(anim[k], k, IsSelected(k, selectedGalaxyId),
                                IsHovered(k, hoveredGalaxy), delta)]
    /\ UNCHANGED <<selectedGalaxyId, hoveredGalaxy, targetRef>>
    /\ UNCHANGED <<randomVars, particleVars, colorVars, detailVars>>

\* a frame of the session that the other events interleave with
Tick(delta) ==
    /\ ticks < MaxTicks
    /\ Frame(delta)

Next ==
    \/ \E id \in CatalogIds \cup AbsentIds : Select(id)
    \/ SelectNext
    \/ SelectPrevious
    \/ \E id \in CatalogIds : PointerOver(id)
    \/ \E id \in CatalogIds : PointerOut(id)
    \/ \E delta \in Deltas : Tick(delta)

Spec == Init /\ [][Next]_vars

(***************************************************************************)
(* Selection claims, checked under Spec.                                   *)
(***************************************************************************)
\* the index of the resolved selection in the catalog
ResolvedIndex == FindIndex(ResolvedId(selectedGalaxyId))

\* the stored id after k calls of next() with no other selection event
RECURSIVE NextTimes(_, _)
NextTimes(id, k) == IF k = 0 THEN id ELSE NextTimes(StepId(id, 1), k - 1)

\* C1: after any sequence of select, next, previous, hover and tick events
\* the resolved selected id is the id of a catalog entry (catalog[0].id
\* initially) and exactly one instance has isSelected = true.
C1_ExactlyOneSelected ==
    /\ ResolvedId(selectedGalaxyId) = orderedGalaxies[1].id
    /\ [](/\ ResolvedId(selectedGalaxyId) \in CatalogIds
          /\ Cardinality({k \in Indices : IsSelected(k, selectedGalaxyId)}) = 1)

C1_Witness ==
    /\ selectedGalaxyId \in AbsentIds
    /\ hoveredGalaxy # NoGalaxy
    /\ ticks > 0

\* C2: select(id) with an id that no catalog entry has leaves the resolved
\* selection at catalog[0].id, from every prior state.
C2_SelectAbsentFallsBack ==
    [][\A id \in AbsentIds :
          Select(id) => /\ ResolvedId(selectedGalaxyId') = orderedGalaxies[1].id
                        /\ targetRef' = Position(0)]_vars

C2_Witness ==
    /\ selectedGalaxyId \in AbsentIds
    /\ targetRef = Position(0)
    /\ ticks > 0

\* C3: from any reachable state, N calls of next() with no other selection
\* event in between return the resolved selection to the id it had before.
C3_NextNTimesReturns ==
    ResolvedId(NextTimes(selectedGalaxyId, N)) = ResolvedId(selectedGalaxyId)

\* C4: with the resolved selection at catalog[i], next() makes the resolved
\* selection catalog[(i+1) mod N] and previous() makes it catalog[(i-1) mod N].
C4_StepMovesByOne ==
    [][/\ SelectNext =>
            ResolvedId(selectedGalaxyId') =
                orderedGalaxies[((ResolvedIndex + 1) % N) + 1].id
       /\ SelectPrevious =>
            ResolvedId(selectedGalaxyId') =
                orderedGalaxies[((ResolvedIndex + N - 1) % N) + 1].id]_vars

(***************************************************************************)
(* createSeededRandom: the Park-Miller generator.                          *)
(***************************************************************************)
Modulus == 2147483647
Multiplier == 16807
SeedShift == 2147483646
Denominator == 2147483646

\* (value * 16807) % 2147483647.  The code forms the product in a double,
\* where it is exact (below 2^53); here the same remainder is computed by
\* Schrage's decomposition so that no intermediate exceeds 32 bits.
NextValue(value) ==
    LET q == Modulus \div Multiplier
        r == Modulus % Multiplier
        t == Multiplier * (value % q) - r * (value \div q)
    IN  IF t < 0 THEN t + Modulus ELSE t

\* let value = seed % 2147483647; if (value <= 0) value += 2147483646
SeedValue(seed) ==
    LET value == JsRem(seed, Modulus)
    IN  IF value <= 0 THEN value + SeedShift ELSE value

\* a return value that forgets the offset of one
Output_NoOffset(value) == [num |-> value, den |-> Denominator]

\* return (value - 1) / 2147483646, as the fraction num / den
Output(value) == [num |-> value - 1, den |-> Denominator]

\* the closure that createSeededRandom(seed) returns, before any draw
NewGenerator(seed) == [seed |-> seed, value |-> SeedValue(seed), out |-> <<>>]

\* a generator whose state variable is shared by all closures
AfterDraw_SharedValue(gs, g) ==
    [h \in DOMAIN gs |->
        IF h = g
        THEN [gs[h] EXCEPT !.value = NextValue(gs[g].value),
                           !.out = Append(gs[g].out, Output(NextValue(gs[g].value)))]
        ELSE [gs[h] EXCEPT !.value = NextValue(gs[g].value)]]

\* one call of the closure g: only the value captured by g changes
AfterDraw(gs, g) ==
    [gs EXCEPT ![g].value = NextValue(gs[g].value),
               ![g].out = Append(gs[g].out, Output(NextValue(gs[g].value)))]

\* seeds: the seeds GalaxyPoints uses for the galaxies at index 0 and 1
\* (index * 97 + 13, index * 211 + 5, index * 131 + 17), zero, the smallest
\* positive and negative seeds, the multiples of the modulus, the seeds next
\* to them, and the two seeds whose first draw gives the smallest and the
\* largest state
Seeds ==
    {0 * 97 + 13, 0 * 211 + 5, 0 * 131 + 17, 1 * 97 + 13, 1 * 211 + 5,
     0, 1, -1, Modulus - 1, Modulus, -Modulus, -(Modulus - 1), -(Modulus - 2),
     739806647, 1407677000}

GenIds == 1..MaxGens

\* const seeded = createSeededRandom(seed)
CreateSeededRandom(g, seed) ==
    /\ g \notin DOMAIN gens
    /\ gens' = [h \in DOMAIN gens \cup {g} |->
                   IF h = g THEN NewGenerator(seed) ELSE gens[h]]
    /\ UNCHANGED <<interactionVars, particleVars, colorVars, detailVars>>

\* seeded()
Draw(g) ==
    /\ g \in DOMAIN gens
    /\ Len(gens[g].out) < MaxDraws
    /\ gens' = AfterDraw(gens, g)
    /\ UNCHANGED <<interactionVars, particleVars, colorVars, detailVars>>

NextRandom ==
    \/ \E g \in GenIds, seed \in Seeds : CreateSeededRandom(g, seed)
    \/ \E g \in GenIds : Draw(g)

SpecRandom == InitFunctions /\ [][NextRandom]_vars

(***************************************************************************)
(* Generator claims, checked under SpecRandom.                             *)
(***************************************************************************)
ValidState(value) == value >= 1 /\ value <= Modulus - 1

\* (a + b) mod Modulus for a, b in 0..Modulus-1, without exceeding 32 bits
AddMod(a, b) == IF a >= Modulus - b THEN a - (Modulus - b) ELSE a + b

\* (a * k) mod Modulus by doubling and adding
RECURSIVE TimesMod(_, _)
TimesMod(a, k) ==
    IF k = 0 THEN 0
    ELSE LET half == TimesMod(a, k \div 2)
             twice == AddMod(half, half)
         IN  IF k % 2 = 1 THEN AddMod(twice, a) ELSE twice

\* C7: seed normalisation leaves the state of a new generator, before its
\* first draw, in [1, 2^31-2] for every integer seed.
C7_SeedNormalized ==
    \A g \in DOMAIN gens : gens[g].out = <<>> => ValidState(gens[g].value)

\* C8: a draw from a state in [1, 2^31-2] leaves the state in [1, 2^31-2],
\* equal to state * 16807 mod (2^31-1), and returns (state' - 1) / (2^31-2),
\* which is at least 0 and less than 1.
C8_DrawKeepsRange ==
    [][\A g \in DOMAIN gens :
          (/\ g \in DOMAIN gens'
           /\ Len(gens'[g].out) = Len(gens[g].out) + 1
           /\ ValidState(gens[g].value))
          => LET ret == gens'[g].out[Len(gens'[g].out)]
             IN  /\ ValidState(gens'[g].value)
                 /\ gens'[g].value = TimesMod(gens[g].value, 16807)
                 /\ ret.den = 2147483646
                 /\ ret.num = gens'[g].value - 1
                 /\ 0 <= ret.num
                 /\ ret.num < ret.den]_vars

\* a generator that has drawn MaxDraws times, one of its draws having
\* produced the largest state there is
C8_Witness ==
    \E g \in DOMAIN gens :
        /\ Len(gens[g].out) = MaxDraws
        /\ ValidState(gens[g].value)
        /\ gens[g].out[1].num = Denominator - 1

\* C9: two generators created from the same seed return the same sequence
\* of values, however their draws interleave with each other and with the
\* draws of other generators.
C9_SameSeedSameSequence ==
    \A a \in DOMAIN gens, b \in DOMAIN gens :
        gens[a].seed = gens[b].seed =>
            \A k \in 1..Len(gens[a].out) :
                k <= Len(gens[b].out) => gens[a].out[k] = gens[b].out[k]

C9_Witness ==
    \E a \in DOMAIN gens, b \in DOMAIN gens :
        /\ a # b
        /\ gens[a].seed = gens[b].seed
        /\ Len(gens[a].out) = MaxDraws
        /\ Len(gens[b].out) >= 2

(***************************************************************************)
(* GalaxyPoints: the particleData computation.  The coordinates and the    *)
(* colours of a particle are floating-point values that are not computed   *)
(* here; what is kept is the placement rule each particle gets, the values *)
(* it draws from the seeded generator and the buffer slots it writes.      *)
(***************************************************************************)
W_ring == <<"r", "i", "n", "g">>
W_Ringed == <<"R", "i", "n", "g", "e", "d">>
W_Lenticular == <<"L", "e", "n", "t", "i", "c", "u", "l", "a", "r">>

\* type labels beyond those of the catalog: one keyword, several keywords
\* in either order, a keyword inside a longer word, a keyword in lower
\* case, no keyword, the empty label
ExtraTypes ==
    { W_Elliptical \o SP \o W_Galaxy,
      W_Ring \o SP \o W_Irregular \o SP \o W_Galaxy,
      W_Irregular \o SP \o W_Ring \o SP \o W_Galaxy,
      W_Peculiar \o SP \o W_Irregular \o SP \o W_Galaxy,
      W_Elliptical \o SP \o W_Peculiar \o SP \o W_Galaxy,
      W_Elliptical \o SP \o W_Ring,
      W_Peculiar \o W_Ring,
      W_Elliptical \o SP \o W_Irregular \o SP \o W_Peculiar \o SP \o W_Ring,
      W_GrandDesign \o SP \o W_Elliptical \o SP \o W_Galaxy,
      W_Ringed \o SP \o W_Spiral \o SP \o W_Galaxy,
      W_ring \o SP \o W_Galaxy,
      W_Lenticular \o SP \o W_Galaxy,
      <<>> }

Types == {orderedGalaxies[k].type : k \in 1..N} \cup ExtraTypes

\* resolveParticleCount(type)
ResolveParticleCount(type) ==
    IF Includes(type, W_Ring) THEN 1400
    ELSE IF Includes(type, W_Irregular) THEN 1200
    ELSE IF Includes(type, W_Peculiar) THEN 1500
    ELSE 1600

\* the switch with the cases for Elliptical and Peculiar exchanged
PlacementRule_EllipticalEarlier(type) ==
    IF Includes(type, W_Ring) THEN "Ring"
    ELSE IF Includes(type, W_Irregular) THEN "Irregular"
    ELSE IF Includes(type, W_Elliptical) THEN "Elliptical"
    ELSE IF Includes(type, W_Peculiar) THEN "Peculiar"
    ELSE "Spiral"

\* switch (true) { case galaxy.type.includes(...): ... default: ... }
PlacementRule(type) ==
    IF Includes(type, W_Ring) THEN "Ring"
    ELSE IF Includes(type, W_Irregular) THEN "Irregular"
    ELSE IF Includes(type, W_Peculiar) THEN "Peculiar"
    ELSE IF Includes(type, W_Elliptical) THEN "Elliptical"
    ELSE "Spiral"

\* a buffer with one slot per particle
BufferLength_OnePerParticle(count) == count

\* new Float32Array(count * 3)
BufferLength(count) == count * 3

\* the generator state after n further calls of seeded()
RECURSIVE AfterDraws(_, _)
AfterDraws(value, n) ==
    IF n = 0 THEN value ELSE AfterDraws(NextValue(value), n - 1)

\* seeded() < 0.18 for the call that leaves the generator in this state:
\* (value - 1) / 2147483646 < 0.18 iff value - 1 <= 386547056
BelowGapThreshold(value) == Output(value).num <= 386547056

\* the generator state after the body of one loop iteration
AfterParticle(type, value) ==
    CASE PlacementRule(type) = "Ring" -> AfterDraws(value, 3)
      [] PlacementRule(type) = "Irregular" -> AfterDraws(value, 4)
      [] PlacementRule(type) = "Peculiar" -> AfterDraws(value, 5)
      [] PlacementRule(type) = "Elliptical" -> AfterDraws(value, 4)
      [] PlacementRule(type) = "Spiral" ->
            IF BelowGapThreshold(AfterDraws(value, 6))
            THEN AfterDraws(value, 8)
            ELSE AfterDraws(value, 6)

\* useMemo(() => { ... }): the lines before the loop
StartParticleData(type, index) ==
    /\ job.phase \in {"idle", "done"}
    /\ job' = [ phase |-> "loop",
                type |-> type,
                index |-> index,
                value |-> SeedValue(index * 97 + 13),
                count |-> ResolveParticleCount(type),
                positionsLength |-> BufferLength(ResolveParticleCount(type)),
                colorsLength |-> BufferLength(ResolveParticleCount(type)),
                i |-> 0,
                positionsWritten |-> 0,
                colorsWritten |-> 0,
                rules |-> {} ]
    /\ UNCHANGED <<interactionVars, randomVars, colorVars, detailVars>>

\* one iteration of for (let i = 0; i < count; i += 1)
ParticleStep ==
    /\ job.phase = "loop"
    /\ job.i < job.count
    /\ job' = [job EXCEPT
                 !.value = AfterParticle(job.type, job.value),
                 !.rules = job.rules \cup {PlacementRule(job.type)},
                 !.positionsWritten = job.i * 3 + 3,
                 !.colorsWritten = job.i * 3 + 3,
                 !.i = job.i + 1]
    /\ UNCHANGED <<interactionVars, randomVars, colorVars, detailVars>>

\* return { positions, colors, radius, count }
FinishParticleData ==
    /\ job.phase = "loop"
    /\ ~(job.i < job.count)
    /\ job' = [job EXCEPT !.phase = "done"]
    /\ UNCHANGED <<interactionVars, randomVars, colorVars, detailVars>>

NextParticles ==
    \/ \E type \in Types, index \in {0, N - 1} : StartParticleData(type, index)
    \/ \E k \in 1..N : StartParticleData(orderedGalaxies[k].type, k - 1)
    \/ ParticleStep
    \/ FinishParticleData

SpecParticles == InitFunctions /\ [][NextParticles]_vars

(***************************************************************************)
(* Classification and count claims, checked under SpecParticles.           *)
(***************************************************************************)
\* the keywords in priority order, and the counts of the count table
Keywords == <<W_Ring, W_Irregular, W_Peculiar, W_Elliptical>>
KeywordNames == <<"Ring", "Irregular", "Peculiar", "Elliptical", "Spiral">>
CountTable == <<1400, 1200, 1500, 1600, 1600>>

\* the rank of the highest-priority keyword a label contains, 5 for none
HighestRank(type) ==
    LET found == {r \in 1..Len(Keywords) : Includes(type, Keywords[r])}
    IN  IF found = {} THEN Len(Keywords) + 1
        ELSE CHOOSE r \in found : \A q \in found : r <= q

\* C5: for every label the placement rule of every particle and the
\* particle count are those of the highest-priority keyword in the label
\* (Ring, Irregular, Peculiar, Elliptical, else the spiral default).
C5_HighestPriorityKeywordWins ==
    job.phase \in {"loop", "done"} =>
        /\ job.rules \subseteq {KeywordNames[HighestRank(job.type)]}
        /\ (job.i > 0 => job.rules # {})
        /\ job.count = CountTable[HighestRank(job.type)]

\* a finished field for a label with all four keywords, Ring last
C5_Witness ==
    /\ job.phase = "done"
    /\ job.type = W_Elliptical \o SP \o W_Irregular \o SP \o W_Peculiar \o SP \o W_Ring
    /\ job.rules = {"Ring"}

\* C6: the finished primary field holds exactly count particles, 3 * count
\* position values and 3 * count colour values, count being 1400 for a
\* label containing Ring, 1200 for Irregular, 1500 for Peculiar and 1600
\* for every other label.
C6_CountLaw ==
    job.phase = "done" =>
        /\ job.i = job.count
        /\ job.positionsLength = 3 * job.count
        /\ job.colorsLength = 3 * job.count
        /\ job.positionsWritten = job.positionsLength
        /\ job.colorsWritten = job.colorsLength
        /\ job.count = IF Includes(job.type, W_Ring) THEN 1400
                       ELSE IF Includes(job.type, W_Irregular) THEN 1200
                       ELSE IF Includes(job.type, W_Peculiar) THEN 1500
                       ELSE 1600

\* the finished field of "Unbarred Spiral Galaxy" at the catalog's index
C6_Witness ==
    /\ job.phase = "done"
    /\ job.type = W_Unbarred \o SP \o W_Spiral \o SP \o W_Galaxy
    /\ job.index = 1
    /\ job.count = 1600
    /\ job.positionsWritten = 4800

(***************************************************************************)
(* getColorPair and its use in GalaxyScene.                                *)
(***************************************************************************)
Comma == ","
White == <<"#", "f", "f", "f", "f", "f", "f">>

\* the position of the first comma of s, 0 when s has none
FirstComma(s) ==
    IF \E i \in 1..Len(s) : s[i] = Comma
    THEN CHOOSE i \in 1..Len(s) :
             s[i] = Comma /\ \A j \in 1..(i - 1) : s[j] # Comma
    ELSE 0

\* String.prototype.split(','): the pieces between the commas, in order
RECURSIVE Split(_)
Split(s) ==
    IF FirstComma(s) = 0 THEN <<s>>
    ELSE <<SubSeq(s, 1, FirstComma(s) - 1)>>
             \o Split(SubSeq(s, FirstComma(s) + 1, Len(s)))

\* a parser that accepts the split only when it has exactly two pieces
GetColorPair_ExactlyTwo(s) ==
    IF Len(Split(s)) = 2 THEN Split(s) ELSE <<s, White>>

\* getColorPair(scheme)
GetColorPair(s) ==
    LET parts == Split(s)
    IN  IF Len(parts) >= 2 THEN parts ELSE <<s, White>>

\* const [primaryColor, secondaryColor] = getColorPair(galaxy.colorScheme)
PrimaryColor == colorPair[1]
SecondaryColor == colorPair[2]

\* every text of at most n characters over the alphabet
SchemeAlphabet == {"#", "f", Comma}
RECURSIVE TextsUpTo(_)
TextsUpTo(n) ==
    IF n = 0 THEN {<<>>}
    ELSE TextsUpTo(n - 1) \cup
         {Append(t, c) : t \in TextsUpTo(n - 1), c \in SchemeAlphabet}

Schemes ==
    {orderedGalaxies[k].colorScheme : k \in 1..N}
        \cup {White} \cup TextsUpTo(MaxSchemeLen)

\* the body of galaxiesWithPositions.map in the JSX of GalaxyScene
ParseColorScheme(s) ==
    /\ scheme' = s
    /\ colorPair' = GetColorPair(s)
    /\ UNCHANGED <<interactionVars, randomVars, particleVars, detailVars>>

NextColors == \E s \in Schemes : ParseColorScheme(s)

SpecColors == InitFunctions /\ [][NextColors]_vars

(***************************************************************************)
(* Colour-scheme claims, checked under SpecColors.                         *)
(***************************************************************************)
Parsed == colorPair # <<>>
HasComma(s) == FirstComma(s) # 0
BeforeFirstComma(s) == SubSeq(s, 1, FirstComma(s) - 1)
AfterFirstComma(s) == SubSeq(s, FirstComma(s) + 1, Len(s))

\* C10 as stated: parsing never fails; with a comma the primary colour is
\* the text before the first comma and the secondary colour is the text
\* that follows it; without a comma the primary colour is the whole string
\* and the secondary colour is "#ffffff".
C10_AsStated ==
    Parsed =>
        /\ Len(colorPair) >= 2
        /\ HasComma(scheme) =>
              /\ PrimaryColor = BeforeFirstComma(scheme)
              /\ SecondaryColor = AfterFirstComma(scheme)
        /\ ~HasComma(scheme) =>
              /\ PrimaryColor = scheme
              /\ SecondaryColor = White

\* C10 as amended: the secondary colour is the text that follows the first
\* comma up to the next comma, or up to the end when there is no other.
C10_SecondaryEndsAtNextComma ==
    Parsed =>
        /\ Len(colorPair) >= 2
        /\ HasComma(scheme) =>
              /\ PrimaryColor = BeforeFirstComma(scheme)
              /\ SecondaryColor =
                    IF HasComma(AfterFirstComma(scheme))
                    THEN BeforeFirstComma(AfterFirstComma(scheme))
                    ELSE AfterFirstComma(scheme)
        /\ ~HasComma(scheme) =>
              /\ PrimaryColor = scheme
              /\ SecondaryColor = White

\* a scheme with a second comma has been parsed
C10_Witness ==
    /\ scheme = <<"#", Comma, "f", Comma>>
    /\ PrimaryColor = <<"#">>
    /\ SecondaryColor = <<"f">>

(***************************************************************************)
(* Animator and camera claims, checked under Spec.                         *)
(***************************************************************************)
\* the targets of the three interaction states of an instance
SelectedTargets == Targets(TRUE, FALSE)
HoveredTargets == Targets(FALSE, TRUE)
IdleTargets == Targets(FALSE, FALSE)

\* the targets that belong to the interaction state of instance k
StateTargets(k) ==
    IF IsSelected(k, selectedGalaxyId) THEN SelectedTargets
    ELSE IF IsHovered(k, hoveredGalaxy) THEN HoveredTargets
    ELSE IdleTargets

\* C11: on every tick each animated scalar of an instance is steered to the
\* selected-state target when the instance is selected, hovered or not; to
\* the hovered-state target only when it is hovered and not selected; to the
\* idle-state target only when it is neither.
C11_SelectedDominates ==
    [][(\E delta \in Deltas : Tick(delta)) =>
          \A k \in Indices : \A f \in Animated :
              anim'[k][f] = Lerp(anim[k][f], StateTargets(k)[f], Factor[f])]_vars

C11_Witness ==
    /\ ticks = 1
    /\ selectedGalaxyId = "whirlpool"
    /\ hoveredGalaxy = "whirlpool"
    /\ anim[4].scale = Lerp(InitialAnim(4).scale, 1160000, 8)
    /\ anim[4].glow = Lerp(InitialAnim(4).glow, 1500000, 8)

\* C13: a step that changes the hovered id or renders a frame leaves the
\* stored selected id, and with it the resolved id that decides the
\* isSelected prop of every instance, as it was.
C13_HoverAndTickKeepSelection ==
    [][(hoveredGalaxy' # hoveredGalaxy \/ ticks' # ticks) =>
          /\ selectedGalaxyId' = selectedGalaxyId
          /\ ResolvedId(selectedGalaxyId') = ResolvedId(selectedGalaxyId)]_vars

C13_Witness ==
    /\ selectedGalaxyId = "cartwheel"
    /\ hoveredGalaxy = "triangulum"
    /\ ticks = 1
    /\ anim[5].scale > InitialAnim(5).scale

SomeHoveredOnly ==
    \E k \in Indices :
        IsHovered(k, hoveredGalaxy) /\ ~IsSelected(k, selectedGalaxyId)

\* C19 as stated: for every animated scalar, bulge point opacity included,
\* the target of the idle instances is strictly below the target of the
\* hovered instance, which is strictly below the target of the selected one.
C19_AsStated ==
    /\ \A f \in Animated : IdleTargets[f] < SelectedTargets[f]
    /\ SomeHoveredOnly =>
          \A f \in Animated :
              IdleTargets[f] < HoveredTargets[f] /\ HoveredTargets[f] < SelectedTargets[f]

\* C19: for scale, ring opacity, glow, inner halo, outer halo, bulge emissive
\* and bulge point size the target of the idle instances is strictly below
\* the target of the hovered instance, which is strictly below the target of
\* the selected one; for bulge point opacity the idle and the hovered target
\* are equal and strictly below the selected target.
C19_TargetsOrdered ==
    /\ \A f \in Animated : IdleTargets[f] < SelectedTargets[f]
    /\ SomeHoveredOnly =>
          /\ \A f \in Animated \ {"bulgeOpacity"} :
                IdleTargets[f] < HoveredTargets[f] /\ HoveredTargets[f] < SelectedTargets[f]
          /\ IdleTargets.bulgeOpacity = HoveredTargets.bulgeOpacity
          /\ HoveredTargets.bulgeOpacity < SelectedTargets.bulgeOpacity

C19_Witness ==
    /\ ticks = 1
    /\ selectedGalaxyId = "andromeda"
    /\ hoveredGalaxy = "sombrero"
    /\ anim[1].ringOpacity = Lerp(InitialAnim(1).ringOpacity, 220000, 8)
    /\ anim[1].bulgeOpacity = Lerp(InitialAnim(1).bulgeOpacity, 820000, 10)
    /\ anim[2].bulgeOpacity = anim[1].bulgeOpacity

(***************************************************************************)
(* The animator with the interaction state held: a session in which the    *)
(* selection and the hover were set before and nothing but frames follows. *)
(* The render loop calls the useFrame callbacks on every animation frame,  *)
(* hence the weak fairness of the frame.                                   *)
(***************************************************************************)
\* the interaction states the session is held in: the hovered instance is
\* the selected one, another one, or none
HeldSelections == {"andromeda", "cartwheel"}
HeldHovers == {"cartwheel", "sombrero", NoGalaxy}

InitAnimator ==
    /\ selectedGalaxyId \in HeldSelections
    /\ hoveredGalaxy \in HeldHovers
    /\ anim = [k \in Indices |-> InitialAnim(k)]
    /\ cameraPosition = [x |-> 0, y |-> 30000, z |-> 80000]
    /\ controlsTarget = [x |-> 0, y |-> 0, z |-> 0]
    /\ targetRef = Position(SceneSelectedIndex(selectedGalaxyId))
    /\ desiredCameraRef = [x |-> 0, y |-> 0, z |-> 0]
    /\ ticks = 0
    /\ InitRandom /\ InitParticles /\ InitColors /\ InitDetail

\* a frame of the held session
HeldTick(delta) ==
    /\ ticks < MaxHeldTicks
    /\ Frame(delta)

NextAnimator == \E delta \in Deltas : HeldTick(delta)

SpecAnimator == InitAnimator /\ [][NextAnimator]_vars /\ WF_vars(NextAnimator)

\* distance of an animated value from a target
Dist(c, t) == IF c >= t THEN c - t ELSE t - c

\* every animated scalar of every instance is closer than Epsilon to the
\* target of the instance's interaction state
AllWithinEpsilon ==
    \A k \in Indices : \A f \in Animated :
        Dist(anim[k][f], StateTargets(k)[f]) < Epsilon

\* C12 as stated: with the targets held, every frame moves every animated
\* scalar strictly closer to its target without crossing it, and eventually
\* every scalar stays within Epsilon of its target.
C12_AsStated ==
    /\ [][ticks' # ticks =>
            \A k \in Indices : \A f \in Animated :
                LET t == StateTargets(k)[f]
                IN  /\ Dist(anim'[k][f], t) < Dist(anim[k][f], t)
                    /\ (anim[k][f] <= t) = (anim'[k][f] <= t)]_vars
    /\ <>[]AllWithinEpsilon

\* C12: with the targets held, a frame never moves an animated scalar away
\* from its target or across it; it moves the scalar strictly closer while
\* the step (target - current) * factor is at least one unit of the
\* arithmetic, and leaves a scalar that is at its target where it is; and
\* eventually every scalar stays within Epsilon of its target.
C12_Converges ==
    /\ [][ticks' # ticks =>
            \A k \in Indices : \A f \in Animated :
                LET t == StateTargets(k)[f]
                    c == anim[k][f]
                    d == anim'[k][f]
                IN  /\ c <= t => (c <= d /\ d <= t)
                    /\ c >= t => (t <= d /\ d <= c)
                    /\ Dist(c, t) * Factor[f] >= 100 => Dist(d, t) < Dist(c, t)]_vars
    /\ <>[]AllWithinEpsilon

C12_Witness ==
    /\ ticks = MaxHeldTicks
    /\ selectedGalaxyId = "andromeda"
    /\ hoveredGalaxy = "cartwheel"
    /\ AllWithinEpsilon
    /\ anim[0].glow > 1400000
    /\ anim[5].outerHalo > 300000
    /\ anim[1].glow < 800000

(***************************************************************************)
(* The desired camera position as a function of the selected galaxy's      *)
(* size: two galaxies that differ in size only, at one position.           *)
(***************************************************************************)
ProbeSizes ==
    {orderedGalaxies[k].sizeLightYears : k \in 1..N}
        \cup {1, 1000, 8000, 27000, 125000, 1000000}

ProbePositions == {Position(0), Position(3)}

\* the camera callback's desired position for sizes s1 and s2 at p
ProbeDesired(p, s1, s2) ==
    /\ probe' = [phase |-> "done", position |-> p, s1 |-> s1, s2 |-> s2,
                 d1 |-> DesiredAt(p, s1), d2 |-> DesiredAt(p, s2)]
    /\ UNCHANGED <<interactionVars, randomVars, particleVars, colorVars,
                   memoVars, pointerVars, frameVars>>

NextCamera ==
    \E p \in ProbePositions : \E s1 \in ProbeSizes : \E s2 \in ProbeSizes :
        ProbeDesired(p, s1, s2)

SpecCamera == InitFunctions /\ [][NextCamera]_vars

\* offset of a desired camera position from the galaxy position
OffsetFrom(d, p) == [x |-> d.x - p.x, y |-> d.y - p.y, z |-> d.z - p.z]

\* squared magnitude of an offset
Magnitude2(o) == o.x * o.x + o.y * o.y + o.z * o.z

\* C14: for two galaxies at one position with sizes s1 <= s2 the desired
\* camera offset for s1 is not longer than that for s2, and each component
\* of the offset is non-decreasing in the cube root of the size.
C14_OffsetGrowsWithSize ==
    probe.phase = "done" =>
        LET o1 == OffsetFrom(probe.d1, probe.position)
            o2 == OffsetFrom(probe.d2, probe.position)
        IN  /\ probe.s1 <= probe.s2 => Magnitude2(o1) <= Magnitude2(o2)
            /\ CbrtMilli(probe.s1) <= CbrtMilli(probe.s2) =>
                  (o1.x <= o2.x /\ o1.y <= o2.y /\ o1.z <= o2.z)

C14_Witness ==
    /\ probe.phase = "done"
    /\ probe.position = Position(3)
    /\ probe.s1 = 14000
    /\ probe.s2 = 220000
    /\ Magnitude2(OffsetFrom(probe.d1, probe.position))
          < Magnitude2(OffsetFrom(probe.d2, probe.position))

(***************************************************************************)
(* The memoized buffers.  A useMemo cell holds the dependency list of its  *)
(* last computation, the number of times its factory has run, and a value. *)
(* An object a factory returns is a new object: its identity is the pair   *)
(* of the cell and the run that made it.  The buffers are a deterministic  *)
(* function of seed, count, radius and colours, which stand for them.      *)
(***************************************************************************)
\* a hook without dependency list: the factory runs on every render
UseMemo_EveryRender(cell, deps, value) ==
    [deps |-> deps, made |-> cell.made + 1, value |-> value]

\* useMemo(factory, deps) on a re-render
UseMemo(cell, deps, value) ==
    IF cell.deps = deps THEN cell
    ELSE [deps |-> deps, made |-> cell.made + 1, value |-> value]

\* useMemo(factory, deps) on mount
MountMemo(deps, value) == [deps |-> deps, made |-> 1, value |-> value]

\* App: orderedGalaxies = useMemo(() => galaxies, []) is one array for the
\* lifetime of App
OrderedGalaxiesIdentity == <<"orderedGalaxies", 1>>

\* [primaryColor, secondaryColor] of the instance at index, as GalaxyScene
\* computes them on every render
ColorPairOf == [k \in Indices |-> GetColorPair(orderedGalaxies[k + 1].colorScheme)]

\* Math.cbrt(galaxy.sizeLightYears) * 0.085 + 4.6, thousandths
GenerationRadius(k) ==
    (CbrtMilli(orderedGalaxies[k + 1].sizeLightYears) * 85) \div 1000 + 4600

\* resolveParticleCount(galaxy.type) of the instance at index
ParticleCountOf == [k \in Indices |-> ResolveParticleCount(orderedGalaxies[k + 1].type)]

ParticleValue(k) ==
    [ seed |-> k * 97 + 13,
      count |-> ParticleCountOf[k],
      radius |-> GenerationRadius(k),
      colors |-> ColorPairOf[k] ]

BulgeValue(k) ==
    LET count == (ParticleCountOf[k] * 14) \div 100
    IN  [ seed |-> k * 211 + 5,
          count |-> IF count > 240 THEN count ELSE 240,
          radius |-> GenerationRadius(k) ]

DustValue(k, particleRadius) ==
    LET dustCount == (ParticleCountOf[k] * 32) \div 100
    IN  [ seed |-> k * 131 + 17,
          count |-> IF dustCount < 900 THEN dustCount ELSE 900,
          baseRadius |-> (particleRadius * (IF IsSombrero(k) THEN 145 ELSE 118)) \div 100,
          color |-> ColorPairOf[k][2] ]

\* GalaxyScene mounts: galaxiesWithPositions
MountLayout == MountMemo(<<OrderedGalaxiesIdentity>>, "galaxiesWithPositions")

\* GalaxyPoints of index k mounts, given the layout cell
MountInstance(k, layout) ==
    LET galaxy == <<"galaxy", layout.made, k>>
        colorA == MountMemo(<<ColorPairOf[k][1]>>, ColorPairOf[k][1])
        colorB == MountMemo(<<ColorPairOf[k][2]>>, ColorPairOf[k][2])
        particle == MountMemo(<<colorA.made, colorB.made, galaxy>>, ParticleValue(k))
    IN  [ colorA |-> colorA,
          colorB |-> colorB,
          particle |-> particle,
          bulge |-> MountMemo(<<galaxy, IsSombrero(k)>>, BulgeValue(k)),
          dust |-> MountMemo(<<colorB.made, galaxy, IsSombrero(k), particle.value.radius>>,
                             DustValue(k, particle.value.radius)) ]

MountedMemo ==
    [ layout |-> MountLayout,
      instances |-> [k \in Indices |-> MountInstance(k, MountLayout)] ]

\* GalaxyPoints of index k renders again
RenderInstance(c, k, layout) ==
    LET galaxy == <<"galaxy", layout.made, k>>
        colorA == UseMemo(c.colorA, <<ColorPairOf[k][1]>>, ColorPairOf[k][1])
        colorB == UseMemo(c.colorB, <<ColorPairOf[k][2]>>, ColorPairOf[k][2])
        particle == UseMemo(c.particle, <<colorA.made, colorB.made, galaxy>>,
                            ParticleValue(k))
    IN  [ colorA |-> colorA,
          colorB |-> colorB,
          particle |-> particle,
          bulge |-> UseMemo(c.bulge, <<galaxy, IsSombrero(k)>>, BulgeValue(k)),
          dust |-> UseMemo(c.dust,
                           <<colorB.made, galaxy, IsSombrero(k), particle.value.radius>>,
                           DustValue(k, particle.value.radius)) ]

\* a state update re-renders App, GalaxyScene and every GalaxyPoints
Render(m) ==
    LET layout == UseMemo(m.layout, <<OrderedGalaxiesIdentity>>, "galaxiesWithPositions")
    IN  [ layout |-> layout,
          instances |-> [k \in Indices |-> RenderInstance(m.instances[k], k, layout)] ]

\* the components mounted; the values the frames animate are left out of
\* this specification
InitMemo ==
    /\ selectedGalaxyId = orderedGalaxies[1].id
    /\ hoveredGalaxy = NoGalaxy
    /\ targetRef = Position(0)
    /\ ticks = 0
    /\ anim = <<>>
    /\ cameraPosition = <<>>
    /\ controlsTarget = <<>>
    /\ desiredCameraRef = <<>>
    /\ InitRandom /\ InitParticles /\ InitColors
    /\ memo = MountedMemo
    /\ pointerOn = {}
    /\ frame = [phase |-> "idle"]
    /\ probe = [phase |-> "idle"]

\* select(id), next(), previous() and the re-render
SelectionRendered(id) ==
    /\ SetSelected(id)
    /\ memo' = Render(memo)
    /\ UNCHANGED <<hoveredGalaxy, anim, cameraPosition, controlsTarget,
                   desiredCameraRef, ticks>>
    /\ UNCHANGED <<randomVars, particleVars, colorVars, pointerVars, frameVars,
                   probeVars>>

\* onPointerOver / onPointerOut of the instance with this id and the re-render
HoverRendered(id, value) ==
    /\ OnHover(id, value)
    /\ memo' = Render(memo)
    /\ UNCHANGED <<selectedGalaxyId, anim, cameraPosition, controlsTarget,
                   targetRef, desiredCameraRef, ticks>>
    /\ UNCHANGED <<randomVars, particleVars, colorVars, pointerVars, frameVars,
                   probeVars>>

\* a frame: the useFrame callbacks write to refs and materials only, call no
\* state setter and do not touch the buffers, so no component renders
FrameWithoutRender ==
    /\ ticks < MaxTicks
    /\ ticks' = ticks + 1
    /\ UNCHANGED <<selectedGalaxyId, hoveredGalaxy, targetRef, anim, cameraPosition,
                   controlsTarget, desiredCameraRef>>
    /\ UNCHANGED <<randomVars, particleVars, colorVars, detailVars>>

NextMemo ==
    \/ \E id \in CatalogIds \cup AbsentIds : SelectionRendered(id)
    \/ SelectionRendered(StepId(selectedGalaxyId, 1))
    \/ SelectionRendered(StepId(selectedGalaxyId, -1))
    \/ \E id \in CatalogIds : HoverRendered(id, TRUE)
    \/ \E id \in CatalogIds : HoverRendered(id, FALSE)
    \/ FrameWithoutRender

SpecMemo == InitMemo /\ [][NextMemo]_vars

\* C15: after any sequence of select, next, previous, hover and tick events
\* the factory of the primary, the bulge and the dust buffer of every
\* instance has run once, and the buffers, their counts and the generation
\* radius are the ones computed at mount.
C15_BuffersGeneratedOnce ==
    \A k \in Indices :
        LET c == memo.instances[k]
        IN  /\ c.particle.made = 1 /\ c.bulge.made = 1 /\ c.dust.made = 1
            /\ c.particle.value = ParticleValue(k)
            /\ c.bulge.value = BulgeValue(k)
            /\ c.dust.value = DustValue(k, GenerationRadius(k))
            /\ c.particle.value.count = ParticleCountOf[k]
            /\ c.particle.value.radius = GenerationRadius(k)

C15_Witness ==
    /\ ticks = 1
    /\ selectedGalaxyId = "cartwheel"
    /\ hoveredGalaxy = "triangulum"
    /\ memo.instances[5].particle.made = 1
    /\ memo.instances[5].particle.value.count = 1400
    /\ memo.instances[2].dust.value.count = 512

(***************************************************************************)
(* Hover with the pointer tracked: the groups of several instances can lie *)
(* under the pointer at once, an instance is left only after it was        *)
(* entered, and the events of different instances arrive in any order.     *)
(***************************************************************************)
InitHover ==
    /\ selectedGalaxyId = orderedGalaxies[1].id
    /\ hoveredGalaxy = NoGalaxy
    /\ targetRef = Position(0)
    /\ ticks = 0
    /\ anim = <<>>
    /\ cameraPosition = <<>>
    /\ controlsTarget = <<>>
    /\ desiredCameraRef = <<>>
    /\ InitRandom /\ InitParticles /\ InitColors /\ InitDetail

\* the pointer enters the group of the instance with this id: onPointerOver
PointerEnters(id) ==
    /\ id \notin pointerOn
    /\ pointerOn' = pointerOn \cup {id}
    /\ OnHover(id, TRUE)
    /\ UNCHANGED <<selectedGalaxyId, anim, cameraPosition, controlsTarget,
                   targetRef, desiredCameraRef, ticks>>
    /\ UNCHANGED <<randomVars, particleVars, colorVars, memoVars, frameVars,
                   probeVars>>

\* the pointer leaves the group of the instance with this id: onPointerOut
PointerLeaves(id) ==
    /\ id \in pointerOn
    /\ pointerOn' = pointerOn \ {id}
    /\ OnHover(id, FALSE)
    /\ UNCHANGED <<selectedGalaxyId, anim, cameraPosition, controlsTarget,
                   targetRef, desiredCameraRef, ticks>>
    /\ UNCHANGED <<randomVars, particleVars, colorVars, memoVars, frameVars,
                   probeVars>>

NextHover ==
    \/ \E id \in CatalogIds : PointerEnters(id)
    \/ \E id \in CatalogIds : PointerLeaves(id)

SpecHover == InitHover /\ [][NextHover]_vars

\* C17: at most one instance is hovered; a pointer-enter on X makes X the
\* hovered instance; a pointer-leave on A changes the hover status of A
\* only, so an instance B entered before the pointer left A is still
\* hovered after the pointer-leave on A.
C17_LeaveClearsOnlyItsOwnHover ==
    [][/\ Cardinality({k \in Indices : IsHovered(k, hoveredGalaxy')}) <= 1
       /\ \A id \in CatalogIds :
            /\ PointerEnters(id) => hoveredGalaxy' = id
            /\ PointerLeaves(id) =>
                  /\ hoveredGalaxy' # id
                  /\ hoveredGalaxy # id => hoveredGalaxy' = hoveredGalaxy]_vars

(***************************************************************************)
(* One frame as the render loop runs it: the useFrame callback of          *)
(* GalaxyScene and the callbacks of the GalaxyPoints instances, one after  *)
(* the other, in an order the model leaves open.  Callback 0 is the one of *)
(* GalaxyScene, callback k + 1 the one of the instance at index k.  Event  *)
(* handlers do not run between the callbacks of a frame.                   *)
(***************************************************************************)
Callbacks == 0..N

\* what the callbacks of a frame read and write
Scene ==
    [ anim |-> anim, cameraPosition |-> cameraPosition,
      controlsTarget |-> controlsTarget, desiredCameraRef |-> desiredCameraRef ]

\* useFrame of GalaxyScene
CameraCallback(sc) ==
    [ sc EXCEPT
        !.desiredCameraRef = DesiredCamera(selectedGalaxyId),
        !.cameraPosition = LerpVec(sc.cameraPosition, DesiredCamera(selectedGalaxyId), 8),
        !.controlsTarget = LerpVec(sc.controlsTarget, targetRef, 12) ]

\* a useFrame of GalaxyPoints that starts from the values of the next instance
InstanceCallback_ReadsNeighbour(sc, k, delta) ==
    [ sc EXCEPT
        !.anim[k] = FrameInstance(sc.anim[(k + 1) % N], k,
                                  IsSelected(k, selectedGalaxyId),
                                  IsHovered(k, hoveredGalaxy), delta) ]

\* useFrame of the GalaxyPoints at index k
InstanceCallback(sc, k, delta) ==
    [ sc EXCEPT
        !.anim[k] = FrameInstance(sc.anim[k], k, IsSelected(k, selectedGalaxyId),
                                  IsHovered(k, hoveredGalaxy), delta) ]

RunOne(sc, c, delta) ==
    IF c = 0 THEN CameraCallback(sc) ELSE InstanceCallback(sc, c - 1, delta)

\* the callbacks c, c + 1, .., N in this order
RECURSIVE RunFrom(_, _, _)
RunFrom(sc, c, delta) ==
    IF c > N THEN sc ELSE RunFrom(RunOne(sc, c, delta), c + 1, delta)

InitFrame ==
    /\ selectedGalaxyId \in HeldSelections
    /\ hoveredGalaxy \in HeldHovers
    /\ anim = [k \in Indices |-> InitialAnim(k)]
    /\ cameraPosition = [x |-> 0, y |-> 30000, z |-> 80000]
    /\ controlsTarget = [x |-> 0, y |-> 0, z |-> 0]
    /\ targetRef = Position(SceneSelectedIndex(selectedGalaxyId))
    /\ desiredCameraRef = [x |-> 0, y |-> 0, z |-> 0]
    /\ ticks = 0
    /\ InitRandom /\ InitParticles /\ InitColors /\ InitDetail

\* the render loop starts a frame
BeginFrame(delta) ==
    /\ frame.phase = "idle"
    /\ ticks < MaxTicks
    /\ frame' = [phase |-> "running", pending |-> Callbacks, delta |-> delta,
                 last |-> -1, start |-> Scene]
    /\ UNCHANGED <<interactionVars, randomVars, particleVars, colorVars,
                   memoVars, pointerVars, probeVars>>

\* the render loop calls one of the callbacks it has not called yet
RunCallback(c) ==
    /\ frame.phase = "running"
    /\ c \in frame.pending
    /\ LET sc == RunOne(Scene, c, frame.delta)
       IN  /\ anim' = sc.anim
           /\ cameraPosition' = sc.cameraPosition
           /\ controlsTarget' = sc.controlsTarget
           /\ desiredCameraRef' = sc.desiredCameraRef
    /\ frame' = [frame EXCEPT !.pending = @ \ {c}, !.last = c]
    /\ UNCHANGED <<selectedGalaxyId, hoveredGalaxy, targetRef, ticks>>
    /\ UNCHANGED <<randomVars, particleVars, colorVars, memoVars, pointerVars,
                   probeVars>>

\* every callback has run: the frame is rendered
EndFrame ==
    /\ frame.phase = "running"
    /\ frame.pending = {}
    /\ frame' = [phase |-> "idle"]
    /\ ticks' = ticks + 1
    /\ UNCHANGED <<selectedGalaxyId, hoveredGalaxy, anim, cameraPosition,
                   controlsTarget, targetRef, desiredCameraRef>>
    /\ UNCHANGED <<randomVars, particleVars, colorVars, memoVars, pointerVars,
                   probeVars>>

NextFrame ==
    \/ \E delta \in Deltas : BeginFrame(delta)
    \/ \E c \in Callbacks : RunCallback(c)
    \/ EndFrame

SpecFrame == InitFrame /\ [][NextFrame]_vars

====
